---- MODULE Spec2Model ----
(***************************************************************************)
(* A model of dragonfly's Natlink back-end                                 *)
(* (dragonfly/engines/backend_natlink/engine.py): the GrammarWrapper's     *)
(* rule activation state, the NatlinkEngine's connection, grammar loading  *)
(* and keep-alive thread, list updates, mimic and audio retention.         *)
(*                                                                         *)
(* The native engine (natlink, GramObj) is outside the repository.  Every  *)
(* native call the adapter makes is modelled by its effect when it         *)
(* succeeds and by "nothing changed, NatError raised" when it fails; which *)
(* of the two happens is an input of the action that makes the call.       *)
(***************************************************************************)
EXTENDS Integers, Sequences, FiniteSets, TLC

\* ------------------------------------------------------------------------
\* Bounds of the model.

\* Rule names of one grammar are 1..NumRules.
NumRules == 2
\* Window handles are 0..MaxHwnd (0 is the wrapper's initial hwnd).
MaxHwnd == 1

\* Grammars are 1..NumGrammars.
NumGrammars == 1
\* At most MaxThreads TimerThread objects are created in one run.
MaxThreads == 2

\* A dragonfly list and its native counterpart hold at most MaxListLen items.
MaxListLen == 2
\* A string given to mimic has at most MaxMimicChars characters, a word
\* sequence at most MaxMimicWords words.
MaxMimicChars == 2
MaxMimicWords == 2
\* The retain directory holds at most MaxWavFiles .wav files.
MaxWavFiles == 2
\* A recognition has at most MaxResultWords words.
MaxResultWords == 2

RuleNames == 1..NumRules
Hwnds == 0..MaxHwnd
Grammars == 1..NumGrammars

VARIABLES
    \* GrammarWrapper fields (engine.py 418-424)
    active_rules_set,   \* self.active_rules_set
    hwnd,               \* self.hwnd
    beginning,          \* self.beginning
    \* the native grammar object: rule name -> set of window handles the rule
    \* is activated for (empty: not active; at most one handle)
    native_active,
    \* position of the native callback thread inside begin_callback:
    \* "idle" (not in the callback), "handler" (inside grammar.process_begin),
    \* "replay" (in the re-activation loop after the flag is cleared)
    cb_pc,
    replay_todo,        \* names the re-activation loop has not visited yet
    wrapper_log,        \* messages logged by the current/last begin_callback
    \* history of the current/last begin_callback, for the properties
    cb_exit,            \* "none", "returned", "raised_early", "raised_replay"
    deferred,           \* names activate_rule was called with inside the handler
    set_at_clear,       \* active_rules_set when beginning was cleared
    applied,            \* name -> successful native activate calls since clear
    activate_in_begin,  \* a native activate call was issued inside the handler
    last_calls,         \* native calls issued by the last wrapper operation
    last_raised,        \* whether the last wrapper operation raised
    \* NatlinkEngine fields and the native connection
    connected,          \* natConnect has been called and natDisconnect not since
    timer_thread,       \* self._timer_thread: 0 (None) or an index of threads
    threads,            \* the TimerThread objects created so far, in order
    grammars,           \* grammar -> its load state in the engine
    disc_pc,            \* position of the main thread inside disconnect()
    eng_last,           \* what the current/last engine operation did
    ever_disconnected,  \* disconnect() has been called
    fix_called,         \* apply_threading_fix() has been called
    \* update_list: a dragonfly list and its native counterpart
    lst,                \* the items of the dragonfly list, in order
    native_list,        \* the native list of the same name
    list_loaded,        \* the list's grammar has a wrapper in the engine
    list_last,          \* what the last update_list call did
    \* mimic
    mimic_last,         \* the last mimic call: its input and what it did
    \* audio retention
    retain_dir,         \* engine._retain_dir: "None", "", "missing" or "dir"
    wav_files,          \* number of .wav files in the retain directory
    tsv_rows,           \* number of rows of retain.tsv
    final_last,         \* what the last _process_final_rule call did
    \* recognition results
    results_last        \* the last results_callback call: input and effect

wrapper_vars == <<active_rules_set, hwnd, beginning, native_active, cb_pc,
                  replay_todo, wrapper_log, cb_exit, deferred, set_at_clear,
                  applied, activate_in_begin, last_calls, last_raised>>

engine_vars == <<connected, timer_thread, threads, grammars, disc_pc,
                 eng_last, ever_disconnected, fix_called>>

list_vars == <<lst, native_list, list_loaded, list_last>>

mimic_vars == <<mimic_last>>

retain_vars == <<retain_dir, wav_files, tsv_rows, final_last>>

results_vars == <<results_last>>

vars == <<wrapper_vars, engine_vars, list_vars, mimic_vars, retain_vars,
          results_vars>>

\* What the actions of one component leave alone.
not_wrapper_vars ==
    <<engine_vars, list_vars, mimic_vars, retain_vars, results_vars>>
not_engine_vars ==
    <<wrapper_vars, list_vars, mimic_vars, retain_vars, results_vars>>
not_list_vars ==
    <<wrapper_vars, engine_vars, mimic_vars, retain_vars, results_vars>>
not_mimic_vars ==
    <<wrapper_vars, engine_vars, list_vars, retain_vars, results_vars>>
not_retain_vars ==
    <<wrapper_vars, engine_vars, list_vars, mimic_vars, results_vars>>
not_results_vars ==
    <<wrapper_vars, engine_vars, list_vars, mimic_vars, retain_vars>>

\* ------------------------------------------------------------------------
\* Helpers over sequences of native calls.

RECURSIVE CountCalls(_, _, _, _)
CountCalls(calls, op, name, okOnly) ==
    IF calls = <<>> THEN 0
    ELSE LET c == Head(calls)
             hit == c.op = op /\ c.name = name /\ (okOnly => c.ok)
         IN  (IF hit THEN 1 ELSE 0) + CountCalls(Tail(calls), op, name, okOnly)

ZeroCount == [n \in RuleNames |-> 0]

\* ------------------------------------------------------------------------
\* map_word (engine.py 56-67).  A word from Dragon is text, a byte string
\* that decodes in the preferred encoding, a byte string that does not, or
\* some other object (the window handle, an integer).  Decoding a byte
\* string yields text; an undecodable one raises UnicodeDecodeError.

TextWord(s) == [kind |-> "text", val |-> s]
BytesWord(s, decodable) == [kind |-> "bytes", val |-> s, decodable |-> decodable]
IntWord(i) == [kind |-> "int", val |-> i]

map_word(word) ==
    IF word.kind = "text" THEN [raised |-> FALSE, val |-> word]
    ELSE IF word.kind = "bytes"
         THEN IF word.decodable
              THEN [raised |-> FALSE, val |-> TextWord(word.val)]
              ELSE [raised |-> TRUE, val |-> word]
         ELSE [raised |-> FALSE, val |-> word]

\* The module_info tuples natlink may hand to the begin callback.
TitleWords == {TextWord("title"), BytesWord("title", TRUE), BytesWord("title", FALSE)}
ModuleInfos ==
    {<<TextWord("exe"), t, IntWord(h)>> : t \in TitleWords, h \in Hwnds}
    \cup {<<TextWord("exe"), IntWord(h)>> : h \in Hwnds}

\* ------------------------------------------------------------------------
\* The native grammar object's activate and deactivate.

NativeCall(op, name, ok) == [op |-> op, name |-> name, ok |-> ok]

GramObj_activate(na, name, h, ok) ==
    IF ok THEN [na EXCEPT ![name] = {h}] ELSE na

GramObj_deactivate(na, name, ok) ==
    IF ok THEN [na EXCEPT ![name] = {}] ELSE na

\* ------------------------------------------------------------------------
\* activate_rule with the two calls of its recovery exchanged: activate
\* again, then deactivate.

activate_rule_reversed(rule_name, ok1, okd, ok2) ==
    LET s == active_rules_set \cup {rule_name}
        a1 == NativeCall("activate", rule_name, ok1)
        d  == NativeCall("deactivate", rule_name, okd)
        a2 == NativeCall("activate", rule_name, ok2)
    IN  IF beginning
        THEN [set |-> s, native |-> native_active, calls |-> <<>>,
              raised |-> FALSE]
        ELSE IF ok1
        THEN [set |-> s,
              native |-> GramObj_activate(native_active, rule_name, hwnd, TRUE),
              calls |-> <<a1>>, raised |-> FALSE]
        ELSE IF ~ok2
        THEN [set |-> s, native |-> native_active, calls |-> <<a1, a2>>,
              raised |-> TRUE]
        ELSE [set |-> s,
              native |-> GramObj_deactivate(
                             GramObj_activate(native_active, rule_name, hwnd, TRUE),
                             rule_name, okd),
              calls |-> <<a1, a2, d>>, raised |-> ~okd]

\* GrammarWrapper.activate_rule (engine.py 444-456).  ok1, okd, ok2: whether
\* the first native activate, the native deactivate and the second native
\* activate succeed.  The result is the new active set, the new native
\* state, the native calls issued and whether the method raised.

activate_rule(rule_name, ok1, okd, ok2) ==
    LET s == active_rules_set \cup {rule_name}
        a1 == NativeCall("activate", rule_name, ok1)
        d  == NativeCall("deactivate", rule_name, okd)
        a2 == NativeCall("activate", rule_name, ok2)
    IN  IF beginning
        THEN [set |-> s, native |-> native_active, calls |-> <<>>,
              raised |-> FALSE]
        ELSE IF ok1
        THEN [set |-> s,
              native |-> GramObj_activate(native_active, rule_name, hwnd, TRUE),
              calls |-> <<a1>>, raised |-> FALSE]
        ELSE IF ~okd
        THEN [set |-> s, native |-> native_active, calls |-> <<a1, d>>,
              raised |-> TRUE]
        ELSE [set |-> s,
              native |-> GramObj_activate(
                             GramObj_deactivate(native_active, rule_name, TRUE),
                             rule_name, hwnd, ok2),
              calls |-> <<a1, d, a2>>, raised |-> ~ok2]

\* deactivate_rule removing the name only after the native call, and
\* tolerating a name that is not in the set.
deactivate_rule_discard(rule_name, okd) ==
    [set |-> IF okd THEN active_rules_set \ {rule_name} ELSE active_rules_set,
     native |-> GramObj_deactivate(native_active, rule_name, okd),
     calls |-> <<NativeCall("deactivate", rule_name, okd)>>,
     raised |-> ~okd]

\* GrammarWrapper.deactivate_rule (engine.py 458-461).  set.remove raises
\* KeyError for a name that is not in the set, before any native call.

deactivate_rule(rule_name, okd) ==
    IF rule_name \notin active_rules_set
    THEN [set |-> active_rules_set, native |-> native_active, calls |-> <<>>,
          raised |-> TRUE]
    ELSE [set |-> active_rules_set \ {rule_name},
          native |-> GramObj_deactivate(native_active, rule_name, okd),
          calls |-> <<NativeCall("deactivate", rule_name, okd)>>,
          raised |-> ~okd]

\* ------------------------------------------------------------------------
\* Wrapper actions.

WrapperInit ==
    /\ active_rules_set = {}
    /\ hwnd = 0
    /\ beginning = FALSE
    /\ native_active = [n \in RuleNames |-> {}]
    /\ cb_pc = "idle"
    /\ replay_todo = {}
    /\ wrapper_log = {}
    /\ cb_exit = "none"
    /\ deferred = {}
    /\ set_at_clear = {}
    /\ applied = ZeroCount
    /\ activate_in_begin = FALSE
    /\ last_calls = <<>>
    /\ last_raised = FALSE

\* The history of the last begin_callback is kept until the next wrapper
\* operation outside a callback; that operation starts from a clean one.
ForgetCallback ==
    /\ replay_todo' = {}
    /\ wrapper_log' = {}
    /\ cb_exit' = "none"
    /\ deferred' = {}
    /\ set_at_clear' = {}
    /\ applied' = ZeroCount
    /\ activate_in_begin' = FALSE

\* A call of activate_rule from outside begin_callback or from inside the
\* grammar's process_begin handler (NatlinkEngine.activate_rule, 282-286,
\* passes rule.name through).
ActivateRule(rule_name, ok1, okd, ok2) ==
    /\ cb_pc \in {"idle", "handler"}
    /\ LET r == activate_rule(rule_name, ok1, okd, ok2)
       IN  /\ active_rules_set' = r.set
           /\ native_active' = r.native
           /\ last_calls' = r.calls
           /\ last_raised' = r.raised
           /\ IF cb_pc = "handler"
              THEN /\ deferred' = deferred \cup {rule_name}
                   /\ activate_in_begin' =
                          (activate_in_begin \/
                           \E i \in 1..Len(r.calls) : r.calls[i].op = "activate")
                   /\ UNCHANGED <<replay_todo, wrapper_log, cb_exit,
                                  set_at_clear, applied>>
              ELSE ForgetCallback
    /\ UNCHANGED <<hwnd, beginning, cb_pc>>
    /\ UNCHANGED not_wrapper_vars

\* A call of deactivate_rule, from outside begin_callback or from inside the
\* handler (NatlinkEngine.deactivate_rule, 288-292).
DeactivateRule(rule_name, okd) ==
    /\ cb_pc \in {"idle", "handler"}
    /\ LET r == deactivate_rule(rule_name, okd)
       IN  /\ active_rules_set' = r.set
           /\ native_active' = r.native
           /\ last_calls' = r.calls
           /\ last_raised' = r.raised
    /\ IF cb_pc = "handler"
       THEN UNCHANGED <<replay_todo, wrapper_log, cb_exit, deferred,
                        set_at_clear, applied, activate_in_begin>>
       ELSE ForgetCallback
    /\ UNCHANGED <<hwnd, beginning, cb_pc>>
    /\ UNCHANGED not_wrapper_vars

\* begin_callback up to the call of grammar.process_begin (engine.py
\* 426-434): the flag is set first; unpacking module_info into three names
\* raises ValueError unless it has three items, and map_word raises on an
\* undecodable byte string; either leaves the callback with the flag set.
BeginCallback(module_info) ==
    /\ cb_pc = "idle"
    /\ beginning' = TRUE
    /\ wrapper_log' = {}
    /\ deferred' = {}
    /\ set_at_clear' = {}
    /\ applied' = ZeroCount
    /\ activate_in_begin' = FALSE
    /\ last_calls' = <<>>
    /\ replay_todo' = {}
    /\ LET mapped == [i \in 1..Len(module_info) |-> map_word(module_info[i])]
           bad == Len(module_info) # 3
                  \/ \E i \in 1..Len(module_info) : mapped[i].raised
       IN  IF bad
           THEN /\ cb_exit' = "raised_early"
                /\ last_raised' = TRUE
                /\ UNCHANGED <<hwnd, cb_pc>>
           ELSE /\ hwnd' = mapped[3].val.val
                /\ cb_pc' = "handler"
                /\ cb_exit' = "none"
                /\ last_raised' = FALSE
    /\ UNCHANGED <<active_rules_set, native_active>>
    /\ UNCHANGED not_wrapper_vars

\* grammar.process_begin returns, or raises and the exception is logged
\* (engine.py 433-441): the flag is cleared and the loop over
\* active_rules_set starts.
HandlerEnd(handler_raised) ==
    /\ cb_pc = "handler"
    /\ wrapper_log' = IF handler_raised
                      THEN wrapper_log \cup {"Exception occurred during process_begin() call."}
                      ELSE wrapper_log
    /\ beginning' = FALSE
    /\ set_at_clear' = active_rules_set
    /\ replay_todo' = active_rules_set
    /\ IF active_rules_set = {}
       THEN cb_pc' = "idle" /\ cb_exit' = "returned"
       ELSE cb_pc' = "replay" /\ cb_exit' = "none"
    /\ last_calls' = <<>>
    /\ last_raised' = FALSE
    /\ UNCHANGED <<active_rules_set, hwnd, native_active, deferred, applied,
                   activate_in_begin>>
    /\ UNCHANGED not_wrapper_vars

\* One iteration of "for rule_name in self.active_rules_set:
\* self.activate_rule(rule_name)" (engine.py 441-442); a set is iterated in
\* no particular order.  A NatError raised by activate_rule leaves the loop
\* and the callback.
ReplayStep(rule_name, ok1, okd, ok2) ==
    /\ cb_pc = "replay"
    /\ rule_name \in replay_todo
    /\ LET r == activate_rule(rule_name, ok1, okd, ok2)
       IN  /\ active_rules_set' = r.set
           /\ native_active' = r.native
           /\ last_calls' = r.calls
           /\ last_raised' = r.raised
           /\ applied' = [applied EXCEPT ![rule_name] =
                              @ + CountCalls(r.calls, "activate", rule_name, TRUE)]
           /\ replay_todo' = replay_todo \ {rule_name}
           /\ IF r.raised
              THEN cb_pc' = "idle" /\ cb_exit' = "raised_replay"
              ELSE IF replay_todo \ {rule_name} = {}
              THEN cb_pc' = "idle" /\ cb_exit' = "returned"
              ELSE UNCHANGED <<cb_pc, cb_exit>>
    /\ UNCHANGED <<hwnd, beginning, wrapper_log, deferred, set_at_clear,
                   activate_in_begin>>
    /\ UNCHANGED not_wrapper_vars

\* The outcomes of the (up to three) native calls of one activate_rule that
\* lead to different executions: the first activate succeeds; it fails and
\* the deactivate fails; it fails, the deactivate succeeds and the second
\* activate succeeds or fails.
ActivateOutcomes ==
    {<<TRUE, TRUE, TRUE>>, <<FALSE, FALSE, TRUE>>, <<FALSE, TRUE, TRUE>>,
     <<FALSE, TRUE, FALSE>>}

WrapperNext ==
    \/ \E n \in RuleNames, o \in ActivateOutcomes : ActivateRule(n, o[1], o[2], o[3])
    \/ \E n \in RuleNames, okd \in BOOLEAN : DeactivateRule(n, okd)
    \/ \E mi \in ModuleInfos : BeginCallback(mi)
    \/ \E hr \in BOOLEAN : HandlerEnd(hr)
    \/ \E n \in RuleNames, o \in ActivateOutcomes : ReplayStep(n, o[1], o[2], o[3])


\* ------------------------------------------------------------------------
\* NatlinkEngine: connection, keep-alive thread, grammar loading.

\* TimerThread.__init__ (engine.py 72-77).  timer: whether self._timer holds
\* an engine timer (None otherwise); timers_made and timer_stops count the
\* engine timers this thread created and the stop() calls made on its
\* timer; stop_calls counts the calls of this thread's stop(); pc is the position of the thread's run loop: "new" (not started),
\* "loop", "check", "call", "clear" (inside _stop_timer), "done", "crashed".
TimerThread_init ==
    [stop_event |-> FALSE, timer |-> FALSE, timers_made |-> 0,
     timer_stops |-> 0, stop_calls |-> 0, started |-> FALSE, pc |-> "new"]

\* TimerThread.start (engine.py 79-89): the engine timer is created when
\* self._timer is None, then the thread is started.
TimerThread_start(t) ==
    LET u == IF ~t.timer
             THEN [t EXCEPT !.timer = TRUE, !.timers_made = @ + 1]
             ELSE t
    IN  [u EXCEPT !.started = TRUE, !.pc = "loop"]

\* apply_threading_fix without its "if self._timer_thread is None" test: a
\* thread is created and started at every call.
apply_threading_fix_unguarded(tt, ths) ==
    [timer_thread |-> Len(ths) + 1,
     threads |-> Append(ths, TimerThread_start(TimerThread_init)),
     created |-> TRUE]

\* NatlinkEngine.apply_threading_fix (engine.py 151-165) on the engine's
\* _timer_thread (0: None) and the threads created so far.
apply_threading_fix(tt, ths) ==
    IF tt = 0
    THEN [timer_thread |-> Len(ths) + 1,
          threads |-> Append(ths, TimerThread_start(TimerThread_init)),
          created |-> TRUE]
    ELSE [timer_thread |-> tt, threads |-> ths, created |-> FALSE]

\* NatlinkEngine.connect (engine.py 167-170).  nc_ok: whether natConnect
\* succeeds; when it raises, the threading fix is not reached.
connect(conn, tt, ths, nc_ok) ==
    IF nc_ok
    THEN LET f == apply_threading_fix(tt, ths)
         IN  [connected |-> TRUE, timer_thread |-> f.timer_thread,
              threads |-> f.threads, created |-> f.created, raised |-> FALSE]
    ELSE [connected |-> conn, timer_thread |-> tt, threads |-> ths,
          created |-> FALSE, raised |-> TRUE]

\* The outcomes of one native GramObj.load call: it succeeds, it raises the
\* NatError "Calling GramObj.load is not allowed before calling natConnect",
\* or it raises another NatError.
LoadOutcomes == {"ok", "not_connected", "error"}

\* The result of a _load_grammar call: the engine state it leaves, result
\* "wrapper" (a GrammarWrapper is returned), "EngineError" or "NatError"
\* (natConnect's error, which nothing catches), the outcomes of the native
\* load calls made, in order, and the number of connect() calls made.
LoadResult(conn, tt, ths, created, result, outcomes, connects) ==
    [connected |-> conn, timer_thread |-> tt, threads |-> ths,
     created |-> created, result |-> result, load_outcomes |-> outcomes,
     connects |-> connects]

\* _load_grammar without the early return: a grammar with no rules is
\* handed to the native load like any other.
load_no_rules_loaded(conn, tt, ths) ==
    LET f == apply_threading_fix(tt, ths)
    IN  LoadResult(conn, f.timer_thread, f.threads, f.created, "wrapper",
                   <<"ok">>, 0)

\* _load_grammar, "if not rule_names: return wrapper" (engine.py 223-224).
load_no_rules(conn, tt, ths) ==
    LoadResult(conn, tt, ths, FALSE, "wrapper", <<>>, 0)

\* _load_grammar after its last successful native load (engine.py
\* 249-253): the threading fix is applied and the wrapper returned.
load_finish(conn, tt, ths, created, outcomes, connects) ==
    LET f == apply_threading_fix(tt, ths)
    IN  LoadResult(conn, f.timer_thread, f.threads, created \/ f.created,
                   "wrapper", outcomes, connects)

\* The "if attempt_connect:" block retrying in a loop: a second "not
\* connected" failure connects and loads once more.
load_retry_again(conn, tt, ths, o1, nc_ok, o2) ==
    LET c == connect(conn, tt, ths, nc_ok)
    IN  IF c.raised
        THEN LoadResult(c.connected, c.timer_thread, c.threads, c.created,
                        "NatError", <<o1>>, 1)
        ELSE IF o2 = "error"
        THEN LoadResult(c.connected, c.timer_thread, c.threads, c.created,
                        "EngineError", <<o1, o2>>, 1)
        ELSE IF o2 = "not_connected"
        THEN load_finish(c.connected, c.timer_thread, c.threads, c.created,
                         <<o1, o2, "ok">>, 2)
        ELSE load_finish(c.connected, c.timer_thread, c.threads, c.created,
                         <<o1, o2>>, 1)

\* _load_grammar, the "if attempt_connect:" block (engine.py 239-247),
\* entered after the first load raised "not connected": connect(), then
\* the second native load, whose NatError becomes an EngineError.
load_retry(conn, tt, ths, o1, nc_ok, o2) ==
    LET c == connect(conn, tt, ths, nc_ok)
    IN  IF c.raised
        THEN LoadResult(c.connected, c.timer_thread, c.threads, c.created,
                        "NatError", <<o1>>, 1)
        ELSE IF o2 # "ok"
        THEN LoadResult(c.connected, c.timer_thread, c.threads, c.created,
                        "EngineError", <<o1, o2>>, 1)
        ELSE load_finish(c.connected, c.timer_thread, c.threads, c.created,
                         <<o1, o2>>, 1)

\* _load_grammar taking every failure of the first native load for "not
\* connected": it connects and loads again.
load_grammar_retry_any(conn, tt, ths, no_rules, o1, nc_ok, o2) ==
    IF no_rules THEN load_no_rules(conn, tt, ths)
    ELSE IF o1 = "ok" THEN load_finish(conn, tt, ths, FALSE, <<o1>>, 0)
    ELSE load_retry(conn, tt, ths, o1, nc_ok, o2)

\* NatlinkEngine._load_grammar (engine.py 202-253).  no_rules: the compiled
\* grammar has no rule names; o1, o2: the outcomes of the first and the
\* second native load; nc_ok: whether natConnect succeeds.
load_grammar(conn, tt, ths, no_rules, o1, nc_ok, o2) ==
    IF no_rules THEN load_no_rules(conn, tt, ths)
    ELSE IF o1 = "ok" THEN load_finish(conn, tt, ths, FALSE, <<o1>>, 0)
    ELSE IF o1 = "not_connected" THEN load_retry(conn, tt, ths, o1, nc_ok, o2)
    ELSE LoadResult(conn, tt, ths, FALSE, "EngineError", <<o1>>, 0)

\* TimerThread._stop_timer (engine.py 91-94), one step of it: "check" is
\* the test of self._timer, "call" reads self._timer again and calls its
\* stop() (AttributeError when it is None by then), "clear" stores None.
\* next is the step that follows, "exit" or "raise".
stop_timer_step(t, pos) ==
    IF pos = "check"
    THEN [thread |-> t, next |-> IF t.timer THEN "call" ELSE "exit"]
    ELSE IF pos = "call"
    THEN IF t.timer
         THEN [thread |-> [t EXCEPT !.timer_stops = @ + 1], next |-> "clear"]
         ELSE [thread |-> t, next |-> "raise"]
    ELSE [thread |-> [t EXCEPT !.timer = FALSE], next |-> "exit"]

\* The three native calls of _unload_grammar (engine.py 258-261): the first
\* that raises ends the try block, the callbacks cleared before it stay
\* cleared.
unload_callbacks(gr, fail_at) ==
    [gr EXCEPT !.callbacks = IF fail_at = 1 THEN @
                             ELSE IF fail_at = 2 THEN @ \ {"begin"}
                             ELSE {}]

\* _unload_grammar without its except clause: the NatError of a native call
\* reaches the caller.
unload_grammar_uncaught(gr, fail_at) ==
    [gr |-> unload_callbacks(gr, fail_at),
     raised |-> fail_at # 0,
     log |-> {}]

\* NatlinkEngine._unload_grammar (engine.py 255-264) on a grammar's load
\* state.  fail_at: 0 when the three native calls succeed, else the call
\* (1: setBeginCallback, 2: setResultsCallback, 3: setHypothesisCallback)
\* that raises NatError, which is logged and not raised.  The result: the
\* load state afterwards, whether an exception left the method, and what
\* was logged.
unload_grammar(gr, fail_at) ==
    [gr |-> unload_callbacks(gr, fail_at),
     raised |-> FALSE,
     log |-> IF fail_at = 0 THEN {} ELSE {"Failed to unload grammar"}]

UnloadFailures == 0..3

\* EngineBase.unload_grammar, called by Grammar.unload(): the wrapper is
\* dropped from the engine after _unload_grammar.
EngineBase_unload_grammar(gr, fail_at) ==
    LET u == unload_grammar(gr, fail_at)
    IN  [u EXCEPT !.gr = IF u.raised THEN u.gr
                         ELSE [u.gr EXCEPT !.loaded = FALSE]]

\* disconnect() releasing the native connection right after the unloading,
\* without stopping the keep-alive thread.
disconnect_after_unload_no_stop(tt) == "nd"

\* Where disconnect() continues after unloading the grammars and closing
\* the dialog window (engine.py 191-197): with the thread's stop() when
\* self._timer_thread is set, else with natDisconnect.
disconnect_after_unload(tt) == IF tt # 0 THEN "stop" ELSE "nd"

\* Where disconnect() continues after self._timer_thread.stop() returned
\* (engine.py 193-194): self._timer_thread = None, then natDisconnect.
disconnect_after_stop == "reset"

NotLoaded == [loaded |-> FALSE, callbacks |-> {}]

\* The record of an engine operation: op and result name it and how it
\* ended ("running" while disconnect() is under way); prev tells whether it
\* is the engine's first operation ("none"), follows a disconnect() call
\* ("disconnect") or another call ("other"); entry_tt is _timer_thread when
\* it was called and created whether it created a TimerThread; no_rules,
\* load_outcomes and connects describe a _load_grammar call; unloaded,
\* stop_calls, nd_called, nd_tt and nd_loaded describe a disconnect() call:
\* the grammars it unloaded, the TimerThread.stop() calls it made, whether
\* it called natDisconnect, and _timer_thread and the loaded grammars at
\* that call; grammar, fail_at and log describe a Grammar.unload() call:
\* the grammar (0: none), the native call that failed and what was logged.
NoOp ==
    [op |-> "none", result |-> "none", prev |-> "none", entry_tt |-> 0,
     created |-> FALSE, no_rules |-> FALSE, load_outcomes |-> <<>>,
     connects |-> 0, unloaded |-> {}, stop_calls |-> 0, nd_called |-> FALSE,
     nd_tt |-> 0, nd_loaded |-> {}, grammar |-> 0, fail_at |-> 0,
     log |-> {}]

\* The record of a new operation called after the one eng_last describes.
NewOp(op) ==
    [NoOp EXCEPT !.op = op,
                 !.prev = IF eng_last.op = "none" THEN "none"
                          ELSE IF eng_last.op = "disconnect" THEN "disconnect"
                          ELSE "other",
                 !.entry_tt = timer_thread]

EngineInit ==
    /\ connected = FALSE
    /\ timer_thread = 0
    /\ threads = <<>>
    /\ grammars = [g \in Grammars |-> NotLoaded]
    /\ disc_pc = "idle"
    /\ eng_last = NoOp
    /\ ever_disconnected = FALSE
    /\ fix_called = FALSE

\* A call of apply_threading_fix() from the application.
ApplyThreadingFix ==
    /\ disc_pc = "idle"
    /\ LET f == apply_threading_fix(timer_thread, threads)
       IN  /\ Len(f.threads) <= MaxThreads
           /\ timer_thread' = f.timer_thread
           /\ threads' = f.threads
           /\ eng_last' = [NewOp("apply_threading_fix") EXCEPT
                              !.result = "returned", !.created = f.created]
    /\ fix_called' = TRUE
    /\ UNCHANGED <<connected, grammars, disc_pc, ever_disconnected>>
    /\ UNCHANGED not_engine_vars

\* A call of connect() from the application.
Connect(nc_ok) ==
    /\ disc_pc = "idle"
    /\ LET c == connect(connected, timer_thread, threads, nc_ok)
       IN  /\ Len(c.threads) <= MaxThreads
           /\ connected' = c.connected
           /\ timer_thread' = c.timer_thread
           /\ threads' = c.threads
           /\ eng_last' = [NewOp("connect") EXCEPT
                              !.result = IF c.raised THEN "NatError"
                                         ELSE "returned",
                              !.created = c.created]
           /\ fix_called' = (fix_called \/ ~c.raised)
    /\ UNCHANGED <<grammars, disc_pc, ever_disconnected>>
    /\ UNCHANGED not_engine_vars

\* Grammar.load() -> EngineBase.load_grammar -> _load_grammar: the wrapper
\* is kept by the engine when _load_grammar returns one.
LoadGrammar(g, no_rules, o1, nc_ok, o2) ==
    /\ disc_pc = "idle"
    /\ ~grammars[g].loaded
    /\ LET r == load_grammar(connected, timer_thread, threads, no_rules, o1,
                             nc_ok, o2)
       IN  /\ Len(r.threads) <= MaxThreads
           /\ connected' = r.connected
           /\ timer_thread' = r.timer_thread
           /\ threads' = r.threads
           /\ grammars' = [grammars EXCEPT ![g] =
                  IF r.result = "wrapper"
                  THEN [loaded |-> TRUE, callbacks |-> {"begin", "results"}]
                  ELSE NotLoaded]
           /\ eng_last' = [NewOp("load_grammar") EXCEPT
                              !.result = r.result,
                              !.no_rules = no_rules,
                              !.load_outcomes = r.load_outcomes,
                              !.connects = r.connects,
                              !.created = r.created]
           /\ fix_called' = (fix_called \/ r.timer_thread # 0)
    /\ UNCHANGED <<disc_pc, ever_disconnected>>
    /\ UNCHANGED not_engine_vars

\* Grammar.unload() from the application -> EngineBase.unload_grammar ->
\* _unload_grammar.
UnloadGrammar(g, fail_at) ==
    /\ disc_pc = "idle"
    /\ grammars[g].loaded
    /\ LET u == EngineBase_unload_grammar(grammars[g], fail_at)
       IN  /\ grammars' = [grammars EXCEPT ![g] = u.gr]
           /\ eng_last' = [NewOp("unload_grammar") EXCEPT
                              !.result = IF u.raised THEN "NatError"
                                         ELSE "returned",
                              !.grammar = g,
                              !.fail_at = fail_at,
                              !.log = u.log]
    /\ UNCHANGED <<connected, timer_thread, threads, disc_pc,
                   ever_disconnected, fix_called>>
    /\ UNCHANGED not_engine_vars

\* disconnect(), first part (engine.py 172-192): every loaded grammar is
\* unloaded, the "Natlink / Python Subsystem" window of this process is
\* closed if there is one, and self._timer_thread is tested.
DisconnectUnload(fails) ==
    /\ disc_pc = "idle"
    /\ \A g \in Grammars : ~grammars[g].loaded => fails[g] = 0
    /\ grammars' = [g \in Grammars |->
                       IF grammars[g].loaded
                       THEN EngineBase_unload_grammar(grammars[g], fails[g]).gr
                       ELSE grammars[g]]
    /\ disc_pc' = disconnect_after_unload(timer_thread)
    /\ eng_last' = [NewOp("disconnect") EXCEPT
                       !.result = "running",
                       !.unloaded = {g \in Grammars : grammars[g].loaded}]
    /\ ever_disconnected' = TRUE
    /\ UNCHANGED <<connected, timer_thread, threads, fix_called>>
    /\ UNCHANGED not_engine_vars

\* TimerThread.stop(), first statement (engine.py 97): the stop event is set.
DisconnectStopEvent ==
    /\ disc_pc = "stop"
    /\ threads' = [threads EXCEPT ![timer_thread].stop_event = TRUE,
                                  ![timer_thread].stop_calls = @ + 1]
    /\ disc_pc' = "check"
    /\ eng_last' = [eng_last EXCEPT !.stop_calls = @ + 1]
    /\ UNCHANGED <<connected, timer_thread, grammars, ever_disconnected,
                   fix_called>>
    /\ UNCHANGED not_engine_vars

\* TimerThread.stop(), the steps of its _stop_timer() call (engine.py 98),
\* run by the main thread.
DisconnectStopTimer ==
    /\ disc_pc \in {"check", "call", "clear"}
    /\ LET st == stop_timer_step(threads[timer_thread], disc_pc)
       IN  /\ threads' = [threads EXCEPT ![timer_thread] = st.thread]
           /\ disc_pc' = IF st.next = "exit" THEN disconnect_after_stop
                         ELSE IF st.next = "raise" THEN "idle"
                         ELSE st.next
           /\ eng_last' = IF st.next = "raise"
                          THEN [eng_last EXCEPT !.result = "AttributeError"]
                          ELSE eng_last
    /\ UNCHANGED <<connected, timer_thread, grammars, ever_disconnected,
                   fix_called>>
    /\ UNCHANGED not_engine_vars

\* self._timer_thread = None (engine.py 194).
DisconnectReset ==
    /\ disc_pc = "reset"
    /\ timer_thread' = 0
    /\ disc_pc' = "nd"
    /\ UNCHANGED <<connected, threads, grammars, eng_last, ever_disconnected,
                   fix_called>>
    /\ UNCHANGED not_engine_vars

\* self.natlink.natDisconnect() (engine.py 197); a NatError it raises
\* reaches the caller.
DisconnectNative(nd_ok) ==
    /\ disc_pc = "nd"
    /\ connected' = IF nd_ok THEN FALSE ELSE connected
    /\ disc_pc' = "idle"
    /\ eng_last' = [eng_last EXCEPT
                       !.result = IF nd_ok THEN "returned" ELSE "NatError",
                       !.nd_called = TRUE,
                       !.nd_tt = timer_thread,
                       !.nd_loaded = {g \in Grammars : grammars[g].loaded}]
    /\ UNCHANGED <<timer_thread, threads, grammars, ever_disconnected,
                   fix_called>>
    /\ UNCHANGED not_engine_vars

\* TimerThread.run (engine.py 100-103), run by the keep-alive thread t: the
\* loop is left once the stop event is set, then _stop_timer() runs.
ThreadLoopExit(t) ==
    /\ t \in 1..Len(threads)
    /\ threads[t].pc = "loop"
    /\ threads[t].stop_event
    /\ threads' = [threads EXCEPT ![t].pc = "check"]
    /\ UNCHANGED <<connected, timer_thread, grammars, disc_pc, eng_last,
                   ever_disconnected, fix_called>>
    /\ UNCHANGED not_engine_vars

ThreadStopTimer(t) ==
    /\ t \in 1..Len(threads)
    /\ threads[t].pc \in {"check", "call", "clear"}
    /\ LET st == stop_timer_step(threads[t], threads[t].pc)
       IN  threads' = [threads EXCEPT ![t] =
               [st.thread EXCEPT !.pc = IF st.next = "exit" THEN "done"
                                        ELSE IF st.next = "raise" THEN "crashed"
                                        ELSE st.next]]
    /\ UNCHANGED <<connected, timer_thread, grammars, disc_pc, eng_last,
                   ever_disconnected, fix_called>>
    /\ UNCHANGED not_engine_vars

\* The inputs of _load_grammar that lead to different executions: no rules;
\* the first load fails otherwise, or succeeds; it reports "not connected"
\* and natConnect fails, or natConnect succeeds and the second load has
\* one of its three outcomes.
LoadCases ==
    {<<TRUE, "ok", TRUE, "ok">>, <<FALSE, "error", TRUE, "ok">>,
     <<FALSE, "ok", TRUE, "ok">>, <<FALSE, "not_connected", FALSE, "ok">>}
    \cup {<<FALSE, "not_connected", TRUE, o2>> : o2 \in LoadOutcomes}

EngineNext ==
    \/ ApplyThreadingFix
    \/ \E nc_ok \in BOOLEAN : Connect(nc_ok)
    \/ \E g \in Grammars, c \in LoadCases :
          LoadGrammar(g, c[1], c[2], c[3], c[4])
    \/ \E g \in Grammars, fail_at \in UnloadFailures : UnloadGrammar(g, fail_at)
    \/ \E fails \in [Grammars -> UnloadFailures] : DisconnectUnload(fails)
    \/ DisconnectStopEvent
    \/ DisconnectStopTimer
    \/ DisconnectReset
    \/ \E nd_ok \in BOOLEAN : DisconnectNative(nd_ok)
    \/ \E t \in 1..MaxThreads : ThreadLoopExit(t)
    \/ \E t \in 1..MaxThreads : ThreadStopTimer(t)

\* ------------------------------------------------------------------------
\* NatlinkEngine.update_list.

RECURSIVE SeqsUpTo(_, _)
SeqsUpTo(S, n) ==
    IF n = 0 THEN {<<>>}
    ELSE LET shorter == SeqsUpTo(S, n - 1)
         IN  shorter \cup {Append(q, x) : q \in shorter, x \in S}

ListWords == {"alpha", "beta"}
Lists == SeqsUpTo(ListWords, MaxListLen)

\* update_list appending to the native list without emptying it first.
update_list_no_empty(items, native, loaded, fail_at) ==
    IF ~loaded THEN [native |-> native, raised |-> FALSE]
    ELSE IF fail_at = 0 \/ fail_at > Len(items) + 1
    THEN [native |-> native \o items, raised |-> FALSE]
    ELSE [native |-> native \o SubSeq(items, 1, fail_at - 1), raised |-> TRUE]

\* NatlinkEngine.update_list (engine.py 294-305) on the items of the list,
\* the native list and whether the grammar has a wrapper.  fail_at: 0 when
\* every native call succeeds, 1 when emptyList raises, k + 1 when the
\* appendList call of item k raises; a NatError reaches the caller.
update_list(items, native, loaded, fail_at) ==
    IF ~loaded THEN [native |-> native, raised |-> FALSE]
    ELSE IF fail_at = 1 THEN [native |-> native, raised |-> TRUE]
    ELSE IF fail_at = 0 \/ fail_at > Len(items) + 1
    THEN [native |-> items, raised |-> FALSE]
    ELSE [native |-> SubSeq(items, 1, fail_at - 2), raised |-> TRUE]

NoListOp == [op |-> "none", raised |-> FALSE, loaded |-> FALSE, prior |-> <<>>]

\* Both lists start empty; earlier update_list calls, complete or cut short
\* by a native error, give the native list every prior content.
ListInit ==
    /\ lst = <<>>
    /\ native_list = <<>>
    /\ list_loaded = FALSE
    /\ list_last = NoListOp

\* The application changes the dragonfly list.
SetList(items) ==
    /\ lst' = items
    /\ list_last' = NoListOp
    /\ UNCHANGED <<native_list, list_loaded>>
    /\ UNCHANGED not_list_vars

\* The list's grammar is loaded or unloaded (_get_grammar_wrapper finds a
\* wrapper or not).
SetListGrammar(loaded) ==
    /\ list_loaded' = loaded
    /\ list_last' = NoListOp
    /\ UNCHANGED <<lst, native_list>>
    /\ UNCHANGED not_list_vars

UpdateList(fail_at) ==
    /\ LET r == update_list(lst, native_list, list_loaded, fail_at)
       IN  /\ native_list' = r.native
           /\ list_last' = [op |-> "update_list", raised |-> r.raised,
                            loaded |-> list_loaded, prior |-> native_list]
    /\ UNCHANGED <<lst, list_loaded>>
    /\ UNCHANGED not_list_vars

ListNext ==
    \/ \E items \in Lists : SetList(items)
    \/ \E loaded \in BOOLEAN : SetListGrammar(loaded)
    \/ \E fail_at \in 0..(MaxListLen + 1) : UpdateList(fail_at)

\* ------------------------------------------------------------------------
\* NatlinkEngine.mimic.

\* Characters of a mimic input: whitespace, a letter, and a character that
\* the preferred encoding cannot encode.
Whitespace == {" ", "\t"}
MimicChars == Whitespace \cup {"a", "U"}
Unencodable == {"U"}

\* str.split() without arguments: the maximal runs of non-whitespace
\* characters, in order.
RECURSIVE SplitFrom(_, _, _)
SplitFrom(chars, cur, acc) ==
    IF chars = <<>>
    THEN IF cur = <<>> THEN acc ELSE Append(acc, cur)
    ELSE IF Head(chars) \in Whitespace
    THEN SplitFrom(Tail(chars), <<>>,
                   IF cur = <<>> THEN acc ELSE Append(acc, cur))
    ELSE SplitFrom(Tail(chars), Append(cur, Head(chars)), acc)

split(chars) == SplitFrom(chars, <<>>, <<>>)

\* A word is a sequence of characters that is text (unicode) or bytes.
Word(chars, text) == [chars |-> chars, text |-> text]

\* The inputs of mimic: a string, a list of words, or None.
StrInput(chars, text) == [kind |-> "str", text |-> text, chars |-> chars,
                          items |-> <<>>]
ListInput(items) == [kind |-> "list", text |-> TRUE, chars |-> <<>>,
                     items |-> items]
NoneInput == [kind |-> "none", text |-> TRUE, chars |-> <<>>, items |-> <<>>]

MimicWords == {Word(<<"a">>, TRUE), Word(<<"U">>, TRUE),
               Word(<<"a", " ", "a">>, TRUE)}

\* The words mimic iterates over (engine.py 327-328): a string is split.
mimic_words(words) ==
    IF words.kind = "str"
    THEN LET parts == split(words.chars)
         IN  [i \in 1..Len(parts) |-> Word(parts[i], words.text)]
    ELSE words.items

\* word.encode(encoding) of Python 2 (engine.py 335-336): raises for a
\* character outside the encoding.
EncodeRaises(word) ==
    word.text /\ \E i \in 1..Len(word.chars) : word.chars[i] \in Unencodable

encode(word) == [word EXCEPT !.text = FALSE]

\* The copying loop of mimic (engine.py 331-340): the words are copied, text
\* words encoded under Python 2; iterating None and an encoding error raise.
copy_words(words, py2) ==
    IF words.kind = "none" THEN [raised |-> TRUE, prepared |-> <<>>]
    ELSE LET ws == mimic_words(words)
         IN  IF py2 /\ \E i \in 1..Len(ws) : EncodeRaises(ws[i])
             THEN [raised |-> TRUE, prepared |-> <<>>]
             ELSE [raised |-> FALSE,
                   prepared |-> [i \in 1..Len(ws) |->
                                    IF py2 /\ ws[i].text THEN encode(ws[i])
                                    ELSE ws[i]]]

\* The first try block of mimic without the "len(prepared_words) == 0" test.
prepare_words_unchecked(words, py2) == copy_words(words, py2)

\* The first try block of mimic (engine.py 330-345): the words are copied;
\* an exception of the copy and an empty result raise, and the exception
\* becomes a MimicFailure.
prepare_words(words, py2) ==
    LET p == copy_words(words, py2)
    IN  IF p.raised \/ Len(p.prepared) = 0
        THEN [raised |-> TRUE, prepared |-> <<>>]
        ELSE p

\* What the native recognitionMimic does: it returns, it raises MimicFailed
\* or it raises another native error.
MimicOutcomes == {"ok", "MimicFailed", "NatError"}

\* NatlinkEngine.mimic (engine.py 313-350).  MimicFailed becomes a
\* MimicFailure, any other native error reaches the caller.  native_calls
\* holds the argument of each recognitionMimic call made.
mimic(words, py2, outcome) ==
    LET p == prepare_words(words, py2)
    IN  IF p.raised
        THEN [result |-> "MimicFailure", native_calls |-> <<>>]
        ELSE [result |-> CASE outcome = "ok" -> "returned"
                           [] outcome = "MimicFailed" -> "MimicFailure"
                           [] OTHER -> "NatError",
              native_calls |-> <<p.prepared>>]

MimicInputs ==
    {StrInput(c, t) : c \in SeqsUpTo(MimicChars, MaxMimicChars), t \in BOOLEAN}
    \cup {ListInput(i) : i \in SeqsUpTo(MimicWords, MaxMimicWords)}
    \cup {NoneInput}

NoMimic ==
    [op |-> "none", words |-> NoneInput, py2 |-> FALSE, result |-> "none",
     native_calls |-> <<>>]

MimicInit == mimic_last = NoMimic

\* A call of mimic(words); under Python 3 a string is always text.
Mimic(words, py2, outcome) ==
    /\ ~py2 => words.text
    /\ LET r == mimic(words, py2, outcome)
       IN  mimic_last' = [op |-> "mimic", words |-> words, py2 |-> py2,
                          result |-> r.result, native_calls |-> r.native_calls]
    /\ UNCHANGED not_mimic_vars

MimicNext ==
    \E words \in MimicInputs, py2 \in BOOLEAN, outcome \in MimicOutcomes :
        Mimic(words, py2, outcome)

\* ------------------------------------------------------------------------
\* Audio retention.

\* The outcomes of results.getWave(): it raises, it returns no audio, it
\* returns audio.
WaveOutcomes == {"raises", "empty", "audio"}

\* The branches of _retain_audio (engine.py 505-532) before the except
\* clause acts: raised tells that getWave or a file write raised inside
\* the try block.
retain_audio_try(dir, wavs, rows, wave, wav_ok, tsv_ok) ==
    IF dir \in {"None", ""}
    THEN [wavs |-> wavs, rows |-> rows, log |-> {}, raised |-> FALSE]
    ELSE IF dir = "missing"
    THEN [wavs |-> wavs, rows |-> rows, log |-> {"warning: not a directory"},
          raised |-> FALSE]
    ELSE IF wave = "raises"
    THEN [wavs |-> wavs, rows |-> rows, log |-> {}, raised |-> TRUE]
    ELSE IF wave = "empty"
    THEN [wavs |-> wavs, rows |-> rows, log |-> {}, raised |-> FALSE]
    ELSE IF ~wav_ok
    THEN [wavs |-> wavs, rows |-> rows, log |-> {}, raised |-> TRUE]
    ELSE IF ~tsv_ok
    THEN [wavs |-> wavs + 1, rows |-> rows, log |-> {}, raised |-> TRUE]
    ELSE [wavs |-> wavs + 1, rows |-> rows + 1, log |-> {}, raised |-> FALSE]

\* _retain_audio without its except clause: an exception of getWave or of
\* a file write leaves the method.
retain_audio_uncaught(dir, wavs, rows, wave, wav_ok, tsv_ok) ==
    retain_audio_try(dir, wavs, rows, wave, wav_ok, tsv_ok)

\* GrammarWrapper._retain_audio (engine.py 503-534).  dir is
\* engine._retain_dir: "None", the empty string, a path that is no
\* directory ("missing") or a directory ("dir"); wave is the outcome of
\* getWave, wav_ok and tsv_ok whether writing the .wav file and appending
\* to retain.tsv succeed.  The result: the files afterwards, what was
\* logged and whether an exception left the method.
retain_audio(dir, wavs, rows, wave, wav_ok, tsv_ok) ==
    LET r == retain_audio_try(dir, wavs, rows, wave, wav_ok, tsv_ok)
    IN  IF r.raised
        THEN [r EXCEPT !.log = {"Exception retaining audio"},
                       !.raised = FALSE]
        ELSE r

\* GrammarWrapper._process_final_rule (engine.py 491-498): the audio is
\* retained, then the base class method is called.  base_calls counts the
\* calls of GrammarWrapperBase._process_final_rule.
process_final_rule(dir, wavs, rows, wave, wav_ok, tsv_ok) ==
    LET r == retain_audio(dir, wavs, rows, wave, wav_ok, tsv_ok)
    IN  [wavs |-> r.wavs, rows |-> r.rows, log |-> r.log,
         retain_raised |-> r.raised,
         base_calls |-> IF r.raised THEN 0 ELSE 1]

\* NatlinkEngine.set_retain_directory (engine.py 365-407): None or a string
\* is stored, anything else raises EngineError and changes nothing.
set_retain_directory(dir, new_dir) ==
    IF new_dir = "not a string" THEN dir ELSE new_dir

RetainDirs == {"None", "", "missing", "dir"}

NoFinal ==
    [op |-> "none", wave |-> "empty", wav_ok |-> TRUE, tsv_ok |-> TRUE,
     log |-> {}, retain_raised |-> FALSE, base_calls |-> 0]

RetainInit ==
    /\ retain_dir = "None"
    /\ wav_files = 0
    /\ tsv_rows = 0
    /\ final_last = NoFinal

SetRetainDirectory(new_dir) ==
    /\ retain_dir' = set_retain_directory(retain_dir, new_dir)
    /\ final_last' = NoFinal
    /\ UNCHANGED <<wav_files, tsv_rows>>
    /\ UNCHANGED not_retain_vars

\* The directory appears or disappears on disk.
DirectoryChanges ==
    /\ retain_dir \in {"missing", "dir"}
    /\ retain_dir' = IF retain_dir = "dir" THEN "missing" ELSE "dir"
    /\ final_last' = NoFinal
    /\ UNCHANGED <<wav_files, tsv_rows>>
    /\ UNCHANGED not_retain_vars

ProcessFinalRule(wave, wav_ok, tsv_ok) ==
    /\ wav_files < MaxWavFiles
    /\ LET r == process_final_rule(retain_dir, wav_files, tsv_rows, wave,
                                   wav_ok, tsv_ok)
       IN  /\ wav_files' = r.wavs
           /\ tsv_rows' = r.rows
           /\ final_last' = [op |-> "process_final_rule", wave |-> wave,
                             wav_ok |-> wav_ok, tsv_ok |-> tsv_ok,
                             log |-> r.log, retain_raised |-> r.retain_raised,
                             base_calls |-> r.base_calls]
    /\ UNCHANGED retain_dir
    /\ UNCHANGED not_retain_vars

RetainNext ==
    \/ \E d \in RetainDirs \cup {"not a string"} : SetRetainDirectory(d)
    \/ DirectoryChanges
    \/ \E wave \in WaveOutcomes, wav_ok, tsv_ok \in BOOLEAN :
          ProcessFinalRule(wave, wav_ok, tsv_ok)

\* ------------------------------------------------------------------------
\* GrammarWrapper.results_callback.

\* The words Dragon reports: text, a byte string that decodes, one that
\* does not.
ResultWords == {TextWord("w"), BytesWord("w", TRUE), BytesWord("w", FALSE)}

\* The words argument of results_callback: the string "other", the string
\* "reject", or a sequence of (word, rule id) pairs.
OtherWords == [kind |-> "other", pairs |-> <<>>]
RejectWords == [kind |-> "reject", pairs |-> <<>>]
ResultRuleIds == {1, 2}
WordsRules ==
    {[kind |-> "pairs", pairs |-> ps] :
        ps \in SeqsUpTo(ResultWords \X ResultRuleIds, MaxResultWords)}

\* tuple(map_word(w) for w in ws): raises when one word does not decode.
map_words(ws) ==
    LET mapped == [i \in 1..Len(ws) |-> map_word(ws[i])]
    IN  [raised |-> \E i \in 1..Len(ws) : mapped[i].raised,
         val |-> [i \in 1..Len(ws) |-> mapped[i].val]]

\* The end of results_callback logging the error whatever the resolution
\* returned.
decode_failed_log_always(resolved) ==
    {"failed to decode recognition"}

\* The end of results_callback (engine.py 482-489): a return when
\* process_results returned true, else the error is logged.
decode_failed_log(resolved) ==
    IF resolved THEN {} ELSE {"failed to decode recognition"}

ResultsCall(fn, arg, dispatch_other) ==
    [fn |-> fn, arg |-> arg, dispatch_other |-> dispatch_other]

\* GrammarWrapper.results_callback (engine.py 463-489).  get_words is what
\* results.getWords(0) returns; outcome is what the function the callback
\* forwards to does: it returns "true" or "false" (the callbacks' return
\* values are not read), or it "raises".  The result: the calls forwarded,
\* what was logged and whether the callback returned or raised.
results_callback(words, get_words, outcome) ==
    IF words = OtherWords
    THEN LET m == map_words(get_words)
         IN  IF m.raised
             THEN [calls |-> <<>>, log |-> {}, result |-> "raised"]
             ELSE [calls |-> <<ResultsCall("recognition_other_callback",
                                           m.val, FALSE)>>,
                   log |-> {},
                   result |-> IF outcome = "raises" THEN "raised"
                              ELSE "returned"]
    ELSE IF words = RejectWords
    THEN [calls |-> <<ResultsCall("recognition_failure_callback", <<>>,
                                  FALSE)>>,
          log |-> {},
          result |-> IF outcome = "raises" THEN "raised" ELSE "returned"]
    ELSE LET ps == words.pairs
             m == map_words([i \in 1..Len(ps) |-> ps[i][1]])
             words_rules == [i \in 1..Len(ps) |-> <<m.val[i], ps[i][2]>>]
         IN  IF m.raised
             THEN [calls |-> <<>>, log |-> {}, result |-> "raised"]
             ELSE [calls |-> <<ResultsCall("process_results", words_rules,
                                           FALSE)>>,
                   log |-> IF outcome = "raises" THEN {}
                           ELSE decode_failed_log(outcome = "true"),
                   result |-> IF outcome = "raises" THEN "raised"
                              ELSE "returned"]

NoResults ==
    [op |-> "none", words |-> RejectWords, outcome |-> "true", calls |-> <<>>,
     log |-> {}, result |-> "none"]

ResultsInit == results_last = NoResults

\* The native engine calls results_callback(words, results).
ResultsCallback(words, get_words, outcome) ==
    /\ words # OtherWords => get_words = <<>>
    /\ words \in {OtherWords, RejectWords} => outcome # "false"
    /\ LET r == results_callback(words, get_words, outcome)
       IN  results_last' = [op |-> "results_callback", words |-> words,
                            outcome |-> outcome, calls |-> r.calls,
                            log |-> r.log, result |-> r.result]
    /\ UNCHANGED not_results_vars

ResultsNext ==
    \/ \E get_words \in SeqsUpTo(ResultWords, MaxResultWords),
          outcome \in {"true", "raises"} :
           ResultsCallback(OtherWords, get_words, outcome)
    \/ \E outcome \in {"true", "raises"} :
           ResultsCallback(RejectWords, <<>>, outcome)
    \/ \E words \in WordsRules, outcome \in {"true", "false", "raises"} :
           ResultsCallback(words, <<>>, outcome)

\* ------------------------------------------------------------------------
\* Specifications.

Init ==
    /\ WrapperInit
    /\ EngineInit
    /\ ListInit
    /\ MimicInit
    /\ RetainInit
    /\ ResultsInit

\* One GrammarWrapper, its native grammar object and the native callback
\* thread.
SpecWrapper == Init /\ [][WrapperNext]_vars

\* The engine, the main thread and the keep-alive threads.
SpecEngine == Init /\ [][EngineNext]_vars

\* A dragonfly list and its native list under update_list.
SpecList == Init /\ [][ListNext]_vars

\* mimic over its inputs.
SpecMimic == Init /\ [][MimicNext]_vars

\* The recognition-result path with audio retention.
SpecRetain == Init /\ [][RetainNext]_vars

\* results_callback over its inputs.
SpecResults == Init /\ [][ResultsNext]_vars

\* ------------------------------------------------------------------------
\* Properties of the GrammarWrapper (SpecWrapper).

\* begin_callback is over and it got as far as clearing the flag.
CallbackOverAfterClear ==
    cb_pc = "idle" /\ cb_exit \in {"returned", "raised_replay"}

\* C1: an activate_rule call made inside the process_begin handler issues
\* no native activate at that moment; once the handler has returned and the
\* flag is cleared, native activate is applied exactly once for each such
\* request whose name is still in active_rules_set when the flag is
\* cleared, and never for a name that is not.  The statement is read in the
\* claim's favour: a rule the loop did reach and whose activation the native
\* engine itself refused is not counted against it.
C1_DeferredAppliedOnce ==
    /\ ~activate_in_begin
    /\ CallbackOverAfterClear =>
           \A n \in deferred :
               IF n \in set_at_clear
               THEN applied[n] = 1 \/ (applied[n] = 0 /\ n \notin replay_todo)
               ELSE applied[n] = 0

\* C2: whenever no begin callback is in progress, a rule name is in
\* active_rules_set if and only if the native grammar object has it
\* activated for the wrapper's current window handle.
C2_ActiveIffNative ==
    cb_pc = "idle" =>
        \A n \in RuleNames :
            (n \in active_rules_set) <=> (native_active[n] = {hwnd})

\* ------------------------------------------------------------------------
\* Properties of the NatlinkEngine (SpecEngine).

LastLoad == eng_last.op = "load_grammar"

\* C3: when the first native load of a _load_grammar call fails with "not
\* connected", connect() is called once and the load retried once: at most
\* two native load calls and never a second connect, two load calls
\* whenever connect() returned; a second load that fails with any native
\* error, "not connected" included, ends the call with EngineError and no
\* wrapper.
C3_RetryOnce ==
    LastLoad =>
        LET lo == eng_last.load_outcomes
        IN  /\ Len(lo) <= 2
            /\ eng_last.connects <= 1
            /\ (Len(lo) >= 1 /\ lo[1] = "not_connected") =>
                   /\ eng_last.connects = 1
                   /\ eng_last.result # "NatError" => Len(lo) = 2
                   /\ (Len(lo) = 2 /\ lo[2] # "ok") =>
                          eng_last.result = "EngineError"
                   /\ eng_last.result = "wrapper" =>
                          (Len(lo) = 2 /\ lo[2] = "ok")

\* A _load_grammar call whose two native loads both failed with "not
\* connected".
C3_Witness ==
    /\ LastLoad
    /\ eng_last.load_outcomes = <<"not_connected", "not_connected">>
    /\ eng_last.connects = 1
    /\ eng_last.result = "EngineError"

\* C4: for a grammar that compiles to no rules, _load_grammar makes no
\* native load call, attempts no connect (and so starts no thread) and
\* returns a wrapper.
C4_NoRulesNoNativeLoad ==
    (LastLoad /\ eng_last.no_rules) =>
        /\ eng_last.load_outcomes = <<>>
        /\ eng_last.connects = 0
        /\ ~eng_last.created
        /\ eng_last.result = "wrapper"

\* A _load_grammar call for a grammar without rules, made before any
\* thread exists, has returned.
C4_Witness ==
    /\ LastLoad
    /\ eng_last.no_rules
    /\ eng_last.result = "wrapper"
    /\ timer_thread = 0

\* C5: as long as disconnect() has not been called, the apply_threading_fix
\* calls made directly, by connect() and by _load_grammar create and start
\* exactly one TimerThread with exactly one engine timer, and a call made
\* while _timer_thread is set creates nothing.
C5_ThreadingFixOnce ==
    ~ever_disconnected =>
        /\ Len(threads) <= 1
        /\ IF fix_called
           THEN /\ Len(threads) = 1
                /\ timer_thread = 1
                /\ threads[1].started
                /\ threads[1].timers_made = 1
           ELSE Len(threads) = 0 /\ timer_thread = 0
        /\ eng_last.entry_tt # 0 => ~eng_last.created

\* A call that reaches apply_threading_fix while a thread is recorded.
C5_Witness ==
    /\ ~ever_disconnected
    /\ eng_last.op \in {"apply_threading_fix", "connect", "load_grammar"}
    /\ eng_last.result \in {"returned", "wrapper"}
    /\ ~eng_last.no_rules
    /\ eng_last.entry_tt # 0
    /\ Len(threads) = 1

\* The thread a disconnect() call found in _timer_thread has been told to
\* stop: its stop event is set, its engine timer has been stopped and its
\* _timer is None.
EntryThreadStopped ==
    eng_last.entry_tt # 0 =>
        /\ threads[eng_last.entry_tt].stop_event
        /\ threads[eng_last.entry_tt].timer_stops >= 1
        /\ ~threads[eng_last.entry_tt].timer

\* C6: within a disconnect() call every loaded grammar is unloaded before
\* the keep-alive thread is told to stop, and natDisconnect is called only
\* after that thread's stop event is set, its engine timer stopped and
\* _timer_thread reset to None.
C6_DisconnectOrder ==
    /\ disc_pc # "idle" => \A g \in Grammars : ~grammars[g].loaded
    /\ disc_pc \in {"check", "call", "clear", "reset"} =>
           threads[eng_last.entry_tt].stop_event
    /\ disc_pc \in {"reset", "nd"} => EntryThreadStopped
    /\ disc_pc = "nd" => timer_thread = 0
    /\ (eng_last.op = "disconnect" /\ eng_last.nd_called) =>
           /\ eng_last.nd_tt = 0
           /\ eng_last.nd_loaded = {}
           /\ EntryThreadStopped

\* A disconnect() call that unloaded a grammar and stopped a thread has
\* called natDisconnect and returned.
C6_Witness ==
    /\ eng_last.op = "disconnect"
    /\ eng_last.result = "returned"
    /\ eng_last.nd_called
    /\ eng_last.unloaded # {}
    /\ eng_last.entry_tt # 0
    /\ eng_last.stop_calls = 1

\* C7: a disconnect() call that is the engine's first operation, or that
\* directly follows another disconnect() call, completes the adapter's own
\* steps (it reaches natDisconnect), stops no thread, leaves _timer_thread
\* None, and no keep-alive thread has had stop() called twice.
C7_DisconnectTwiceSafe ==
    (eng_last.op = "disconnect" /\ disc_pc = "idle"
        /\ eng_last.prev \in {"none", "disconnect"}) =>
        /\ eng_last.nd_called
        /\ eng_last.stop_calls = 0
        /\ timer_thread = 0
        /\ \A t \in 1..Len(threads) : threads[t].stop_calls <= 1

\* ------------------------------------------------------------------------
\* Properties of update_list (SpecList), mimic (SpecMimic) and audio
\* retention (SpecRetain).

\* C8: after update_list returns for a list of a loaded grammar, the native
\* list holds exactly the items of the dragonfly list, in order, whatever
\* it held before.
C8_UpdateListReplaces ==
    (list_last.op = "update_list" /\ list_last.loaded /\ ~list_last.raised) =>
        native_list = lst

\* An update_list call has returned that replaced a non-empty native list
\* by a different list of two items.
C8_Witness ==
    /\ list_last.op = "update_list"
    /\ list_last.loaded
    /\ ~list_last.raised
    /\ list_last.prior # <<>>
    /\ list_last.prior # lst
    /\ Len(lst) = 2
    /\ native_list = lst

\* The mimic input is the empty list, or a string (the empty one included)
\* all of whose characters are whitespace.
MimicInputEmpty ==
    \/ mimic_last.words.kind = "list" /\ mimic_last.words.items = <<>>
    \/ /\ mimic_last.words.kind = "str"
       /\ \A i \in 1..Len(mimic_last.words.chars) :
              mimic_last.words.chars[i] \in Whitespace

\* C9: mimic of the empty string, of the empty list and of a string without
\* words fails with MimicFailure without calling recognitionMimic, and
\* recognitionMimic is only ever called with a non-empty word sequence.
C9_MimicEmptyFails ==
    mimic_last.op = "mimic" =>
        /\ MimicInputEmpty =>
               /\ mimic_last.result = "MimicFailure"
               /\ mimic_last.native_calls = <<>>
        /\ \A i \in 1..Len(mimic_last.native_calls) :
               Len(mimic_last.native_calls[i]) > 0

\* mimic of a string of whitespace only has failed.
C9_Witness ==
    /\ mimic_last.op = "mimic"
    /\ mimic_last.words.kind = "str"
    /\ Len(mimic_last.words.chars) = 2
    /\ MimicInputEmpty
    /\ mimic_last.result = "MimicFailure"

\* C10: whatever happens in _retain_audio, no exception leaves it and the
\* base class _process_final_rule is called exactly once.
C10_RetentionNeverFails ==
    final_last.op = "process_final_rule" =>
        /\ ~final_last.retain_raised
        /\ final_last.base_calls = 1

\* A final rule was processed while getWave raised, or a file write failed,
\* in an existing retain directory.
C10_Witness ==
    /\ final_last.op = "process_final_rule"
    /\ retain_dir = "dir"
    /\ "Exception retaining audio" \in final_last.log
    /\ final_last.base_calls = 1

\* ------------------------------------------------------------------------
\* Further properties of the engine (SpecEngine).

\* C11: _unload_grammar never raises to its caller; when its native calls
\* all succeed no callback of the grammar stays registered, and when one
\* fails with NatError the failure is logged.
C11_UnloadClearsCallbacks ==
    eng_last.op = "unload_grammar" =>
        /\ eng_last.result = "returned"
        /\ eng_last.fail_at = 0 => grammars[eng_last.grammar].callbacks = {}
        /\ eng_last.fail_at # 0 => "Failed to unload grammar" \in eng_last.log

\* A grammar with both callbacks registered has been unloaded without native
\* error.
C11_Witness ==
    /\ eng_last.op = "unload_grammar"
    /\ eng_last.fail_at = 0
    /\ eng_last.result = "returned"
    /\ grammars[eng_last.grammar].callbacks = {}
    /\ ~grammars[eng_last.grammar].loaded

\* ------------------------------------------------------------------------
\* Properties of results_callback (SpecResults).

\* The functions the last results_callback call forwarded to.
ForwardedTo ==
    {results_last.calls[i].fn : i \in 1..Len(results_last.calls)}

\* C12: a results_callback call forwards to at most one function, chosen by
\* words alone: recognition_other_callback for "other",
\* recognition_failure_callback for "reject", else process_results on the
\* decoded pairs with dispatch_other false; and exactly one call is made
\* unless decoding the words raised.  The "failed to decode recognition"
\* error is logged exactly when process_results returned false, and the
\* callback then returns normally.
C12_ResultsThreePaths ==
    results_last.op = "results_callback" =>
        /\ Len(results_last.calls) <= 1
        /\ ForwardedTo \subseteq
               {IF results_last.words = OtherWords
                THEN "recognition_other_callback"
                ELSE IF results_last.words = RejectWords
                THEN "recognition_failure_callback"
                ELSE "process_results"}
        /\ \A i \in 1..Len(results_last.calls) :
               ~results_last.calls[i].dispatch_other
        /\ results_last.words = RejectWords => Len(results_last.calls) = 1
        /\ ("failed to decode recognition" \in results_last.log) <=>
               /\ "process_results" \in ForwardedTo
               /\ results_last.outcome = "false"
        /\ ("failed to decode recognition" \in results_last.log) =>
               results_last.result = "returned"

\* A recognition of two words, one of them a byte string, did not resolve:
\* the error was logged and the callback returned.
C12_Witness ==
    /\ results_last.op = "results_callback"
    /\ results_last.words.kind = "pairs"
    /\ Len(results_last.words.pairs) = 2
    /\ \E i \in 1..2 : results_last.words.pairs[i][1].kind = "bytes"
    /\ "process_results" \in ForwardedTo
    /\ "failed to decode recognition" \in results_last.log
    /\ results_last.result = "returned"

\* ------------------------------------------------------------------------
\* Further properties of the GrammarWrapper (SpecWrapper).

\* The last begin_callback is over and its process_begin handler raised.
CallbackOverAfterHandlerRaised ==
    /\ cb_pc = "idle"
    /\ cb_exit \in {"returned", "raised_replay"}
    /\ "Exception occurred during process_begin() call." \in wrapper_log

\* C13: after a begin_callback whose process_begin handler raised, the
\* exception is logged, the beginning flag is cleared and every rule of
\* active_rules_set is natively active for the new window handle, unless
\* the native engine refused that very rule.
C13_HandlerExceptionHarmless ==
    CallbackOverAfterHandlerRaised =>
        /\ ~beginning
        /\ \A n \in active_rules_set :
               \/ native_active[n] = {hwnd}
               \/ applied[n] = 0 /\ n \notin replay_todo

\* C14: a deactivate_rule(name) call for a name in active_rules_set removes
\* it from the set and issues exactly one native deactivate(name); for a
\* name that is not in the set it raises, issues no native call and leaves
\* the set unchanged.
C14_DeactivateRule ==
    [][\A n \in RuleNames, okd \in BOOLEAN :
          DeactivateRule(n, okd) =>
              IF n \in active_rules_set
              THEN /\ active_rules_set' = active_rules_set \ {n}
                   /\ last_calls' = <<NativeCall("deactivate", n, okd)>>
              ELSE /\ last_raised'
                   /\ last_calls' = <<>>
                   /\ active_rules_set' = active_rules_set]_vars

\* deactivate_rule has failed for a name that is not in the non-empty
\* active set: an operation outside a callback raised without a native
\* call (activate_rule always issues one there).
C14_Witness ==
    /\ cb_pc = "idle"
    /\ cb_exit = "none"
    /\ ~beginning
    /\ last_raised
    /\ last_calls = <<>>
    /\ active_rules_set # {}
    /\ active_rules_set # RuleNames

AliveThreads ==
    {t \in 1..Len(threads) : threads[t].pc \in {"loop", "check", "call", "clear"}}

RunningTimers ==
    {t \in 1..Len(threads) : threads[t].timers_made > threads[t].timer_stops}

\* C18: at every moment at most one TimerThread of the engine is alive and
\* at most one engine timer created by a TimerThread is running.
C18_OneKeepAliveThread ==
    /\ Cardinality(AliveThreads) <= 1
    /\ Cardinality(RunningTimers) <= 1

\* C19: under every interleaving of TimerThread.stop(), called by
\* disconnect(), with the thread's run loop, stop() of the engine timer is
\* called at most once per TimerThread (once when both are through), and
\* neither the main thread nor the keep-alive thread calls stop() on a
\* _timer that is None.
C19_StopTimerOnce ==
    /\ \A t \in 1..Len(threads) :
           /\ threads[t].timer_stops <= 1
           /\ threads[t].pc # "crashed"
           /\ threads[t].pc = "done" => threads[t].timer_stops = 1
    /\ eng_last.result # "AttributeError"

\* C20: whenever no begin_callback is executing, whether the last one
\* returned or raised, the beginning flag is False.
C20_BeginningOnlyInCallback ==
    cb_pc = "idle" => ~beginning

\* C15: a native error never leaves update_list, and a native error of the
\* recovery inside activate_rule (the deactivate and the second activate)
\* never leaves activate_rule: no wrapper operation that issued a native
\* activate has raised.
C15_NativeErrorsSwallowed ==
    /\ list_last.op = "update_list" => ~list_last.raised
    /\ last_raised =>
           \A i \in 1..Len(last_calls) : last_calls[i].op # "activate"

\* ------------------------------------------------------------------------
\* Further properties of loading and of the keep-alive thread (SpecEngine).

\* C16: when the first native load of a _load_grammar call fails with a
\* native error other than "not connected", the call ends with EngineError
\* at once: no connect(), no second load, no TimerThread created and
\* _timer_thread as it was, no wrapper.
C16_LoadErrorSurfaced ==
    (LastLoad /\ eng_last.load_outcomes # <<>>
        /\ eng_last.load_outcomes[1] = "error") =>
        /\ eng_last.result = "EngineError"
        /\ eng_last.load_outcomes = <<"error">>
        /\ eng_last.connects = 0
        /\ ~eng_last.created
        /\ timer_thread = eng_last.entry_tt

\* The first _load_grammar call of an engine failed with another native
\* error: still not connected and without keep-alive thread.
C16_Witness ==
    /\ LastLoad
    /\ eng_last.load_outcomes = <<"error">>
    /\ eng_last.result = "EngineError"
    /\ eng_last.prev = "none"
    /\ timer_thread = 0
    /\ threads = <<>>
    /\ ~connected

====
